---- MODULE Spec2Model ----
\* Verification model of txtl (src/src/App.tsx): the side-by-side diff renderer
\* (diff operation stream -> two line-numbered panes) and the App state that
\* drives it.  Text is a sequence of one-character strings.
EXTENDS Integers, Sequences, FiniteSets, TLC

VARIABLES
    diffs,          \* the [op, text] pairs the streaming pass has taken so far
    segments,       \* segments of the current pair still to be processed
    leftContent,    \* Content of the "Original" pane
    rightContent,   \* Content of the "Modified" pane
    pc,             \* "stream" | "computeRight" | "done"
    mode,           \* App state: '' | 'diff' | 'json' | ...
    inputA,         \* App state: text of the input textarea
    inputB,         \* App state: text of the diff textarea
    memoDeps,       \* dependencies the diffContent memo was last computed for
    diffContent,    \* memoised value: <<>> is null, <<[left, right]>> the panes
    event,          \* the DOM event the App handled last: [type, text]
    diffPanelHeight,\* App state: height of the diff panel in px
    listeners,      \* document mousemove/mouseup listener pairs of the drags
    paneMode,       \* right pane: the mode it is rendered for
    paneInput,      \* right pane: what the library calls make of inputA
    pane            \* right pane: <<>> before the render, <<output>> after

passVars == <<diffs, segments, leftContent, rightContent, pc>>
appVars == <<mode, inputA, inputB, memoDeps, diffContent, event,
            diffPanelHeight, listeners>>
paneVars == <<paneMode, paneInput, pane>>
vars == <<diffs, segments, leftContent, rightContent, pc,
          mode, inputA, inputB, memoDeps, diffContent, event,
          diffPanelHeight, listeners,
          paneMode, paneInput, pane>>

----------------------------------------------------------------------------
\* Bounds of the model.

MaxLen == 2         \* longest text of one generated operation / input
MaxOps == 2         \* most generated operations in one sequence

NL == "\n"
Chars == {"a", NL}
Texts == UNION {[1..n -> Chars] : n \in 0..MaxLen}

----------------------------------------------------------------------------
\* diff-match-patch operation codes as the pass tests them.

DIFF_EQUAL == 0
DIFF_INSERT == 1
DIFF_DELETE == -1
OpCodes == {DIFF_EQUAL, DIFF_INSERT, DIFF_DELETE}

Diff(op, text) == [op |-> op, text |-> text]

\* The worked scenarios of the specification's testable properties.
PureInsertion ==
    << Diff(DIFF_DELETE, <<>>), Diff(DIFF_INSERT, <<"a", NL, "b", NL>>) >>
PureDeletion ==
    << Diff(DIFF_INSERT, <<>>), Diff(DIFF_DELETE, <<"a", NL, "b", NL>>) >>
MixedEdit ==
    << Diff(DIFF_EQUAL, <<"f", "o", "o", NL>>), Diff(DIFF_DELETE, <<"b", "a", "r">>),
       Diff(DIFF_INSERT, <<"b", "a", "z">>), Diff(DIFF_EQUAL, <<NL>>) >>
Scenarios == {PureInsertion, PureDeletion, MixedEdit}

\* The pairs the diff source may yield after the prefix `taken`: any bounded
\* pair while fewer than MaxOps were taken, or the next pair of a scenario.
NextDiffs(taken) ==
    (IF Len(taken) < MaxOps
        THEN {Diff(op, text) : op \in OpCodes, text \in Texts} ELSE {})
    \cup {s[Len(taken) + 1] : s \in {t \in Scenarios :
            Len(t) > Len(taken) /\ SubSeq(t, 1, Len(taken)) = taken}}

----------------------------------------------------------------------------
\* Text primitives.

endsWith(text, c) == Len(text) > 0 /\ text[Len(text)] = c

\* Variant of the split that cuts at the newlines and drops them, as
\* text.split('\n') would.
RECURSIVE splitDroppingNewline(_)
splitDroppingNewline(text) ==
    LET cuts == {q \in 1..Len(text) : text[q] = NL}
    IN  IF cuts = {} THEN <<text>>
        ELSE LET q == CHOOSE c \in cuts : \A d \in cuts : c <= d
             IN  <<SubSeq(text, 1, q - 1)>>
                     \o splitDroppingNewline(SubSeq(text, q + 1, Len(text)))

\* text.split(/(?<=\n)/): cut at every position 0 < q < length that follows a
\* newline; the empty text yields one empty segment.
RECURSIVE split(_)
split(text) ==
    LET cuts == {q \in 1..(Len(text) - 1) : text[q] = NL}
    IN  IF cuts = {} THEN <<text>>
        ELSE LET q == CHOOSE c \in cuts : \A d \in cuts : c <= d
             IN  <<SubSeq(text, 1, q)>> \o split(SubSeq(text, q + 1, Len(text)))

----------------------------------------------------------------------------
\* DiffSpan, DiffLine, Content.  An optional field is <<>> (undefined) or <<v>>.

DiffSpan(content, state) == [content |-> content, state |-> state]

DiffLine == [spans |-> <<>>, showNextLineNumber |-> <<>>, lineNumber |-> <<>>]

addSpan(line, span) == [line EXCEPT !.spans = Append(@, span)]

lastSpan(line) ==
    IF Len(line.spans) = 0 THEN <<>> ELSE <<line.spans[Len(line.spans)]>>

Content == [lines |-> <<DiffLine>>]

last(content) == content.lines[Len(content.lines)]

\* Variant of content.last().addSpan(span) that appends to the first line.
lastAddSpanFirst(content, span) ==
    [content EXCEPT !.lines[1] = addSpan(@, span)]

\* content.last().addSpan(span): the last line is mutated in place.
lastAddSpan(content, span) ==
    [content EXCEPT !.lines[Len(content.lines)] = addSpan(@, span)]

\* Variant of addLine that pushes the new line before writing the flag, so
\* the flag lands on the new line.
addLineFlagOnNew(content, showLineNumber) ==
    LET n == Len(content.lines)
        closed == IF showLineNumber THEN content.lines[n]
                  ELSE [content.lines[n] EXCEPT
                            !.spans = Append(@, DiffSpan(<<NL>>, "spacer"))]
        pushed == [DiffLine EXCEPT !.showNextLineNumber = <<showLineNumber>>]
    IN  [content EXCEPT !.lines = Append([@ EXCEPT ![n] = closed], pushed)]

\* Variant of addLine without the `if (!showLineNumber)` test.
addLineAlwaysSpacer(content, showLineNumber) ==
    LET n == Len(content.lines)
        flagged == [content.lines[n] EXCEPT !.showNextLineNumber = <<showLineNumber>>]
        closed == [flagged EXCEPT !.spans = Append(@, DiffSpan(<<NL>>, "spacer"))]
    IN  [content EXCEPT !.lines = Append([@ EXCEPT ![n] = closed], DiffLine)]

addLine(content, showLineNumber) ==
    LET n == Len(content.lines)
        flagged == [content.lines[n] EXCEPT !.showNextLineNumber = <<showLineNumber>>]
        closed == IF ~showLineNumber
                     THEN [flagged EXCEPT !.spans = Append(@, DiffSpan(<<NL>>, "spacer"))]
                     ELSE flagged
    IN  [content EXCEPT !.lines = Append([@ EXCEPT ![n] = closed], DiffLine)]

\* line.showNextLineNumber ?? false
carryOf(line) ==
    IF line.showNextLineNumber = <<>> THEN FALSE ELSE line.showNextLineNumber[1]

\* Variant of the forEach that never updates showNextLineNumber.
RECURSIVE numberFromNoCarry(_, _, _, _)
numberFromNoCarry(lines, i, lineNumber, showNextLineNumber) ==
    IF i > Len(lines) THEN lines
    ELSE LET numbered == IF showNextLineNumber
                            THEN [lines EXCEPT ![i].lineNumber = <<lineNumber>>]
                            ELSE lines
             nextNumber == IF showNextLineNumber THEN lineNumber + 1 ELSE lineNumber
         IN  numberFromNoCarry(numbered, i + 1, nextNumber, showNextLineNumber)

\* Variant of the forEach that counts every row, numbered or not.
RECURSIVE numberFromCountAll(_, _, _, _)
numberFromCountAll(lines, i, lineNumber, showNextLineNumber) ==
    IF i > Len(lines) THEN lines
    ELSE LET numbered == IF showNextLineNumber
                            THEN [lines EXCEPT ![i].lineNumber = <<lineNumber>>]
                            ELSE lines
         IN  numberFromCountAll(numbered, i + 1, lineNumber + 1, carryOf(lines[i]))

\* The forEach of computeLineNumbers from row i on, with its two locals.
RECURSIVE numberFrom(_, _, _, _)
numberFrom(lines, i, lineNumber, showNextLineNumber) ==
    IF i > Len(lines) THEN lines
    ELSE LET numbered == IF showNextLineNumber
                            THEN [lines EXCEPT ![i].lineNumber = <<lineNumber>>]
                            ELSE lines
             nextNumber == IF showNextLineNumber THEN lineNumber + 1 ELSE lineNumber
         IN  numberFrom(numbered, i + 1, nextNumber, carryOf(lines[i]))

\* Variant of computeLineNumbers that starts counting at 0.
computeLineNumbersFromZero(content) ==
    [content EXCEPT !.lines = numberFrom(@, 1, 0, TRUE)]

computeLineNumbers(content) ==
    [content EXCEPT !.lines = numberFrom(@, 1, 1, TRUE)]

----------------------------------------------------------------------------
\* The streaming pass over the diff pairs.  A pair of panes is [left, right].

Panes(l, r) == [left |-> l, right |-> r]

\* Variant of the span append step that feeds an equal segment to the left only.
appendSpansEqualLeftOnly(p, op, spanText) ==
    IF op = DIFF_EQUAL
        THEN Panes(lastAddSpan(p.left, DiffSpan(spanText, "unchanged")), p.right)
    ELSE IF op = DIFF_INSERT
        THEN Panes(p.left, lastAddSpan(p.right, DiffSpan(spanText, "added")))
    ELSE Panes(lastAddSpan(p.left, DiffSpan(spanText, "removed")), p.right)

\* Variant of the span append step that feeds an insert to the left.
appendSpansInsertToLeft(p, op, spanText) ==
    IF op = DIFF_EQUAL
        THEN Panes(lastAddSpan(p.left, DiffSpan(spanText, "unchanged")),
                   lastAddSpan(p.right, DiffSpan(spanText, "unchanged")))
    ELSE IF op = DIFF_INSERT
        THEN Panes(lastAddSpan(p.left, DiffSpan(spanText, "added")), p.right)
    ELSE Panes(lastAddSpan(p.left, DiffSpan(spanText, "removed")), p.right)

\* Span append step of one segment.
appendSpans(p, op, spanText) ==
    IF op = DIFF_EQUAL
        THEN Panes(lastAddSpan(p.left, DiffSpan(spanText, "unchanged")),
                   lastAddSpan(p.right, DiffSpan(spanText, "unchanged")))
    ELSE IF op = DIFF_INSERT
        THEN Panes(p.left, lastAddSpan(p.right, DiffSpan(spanText, "added")))
    ELSE Panes(lastAddSpan(p.left, DiffSpan(spanText, "removed")), p.right)

\* Variant of the line-boundary step that advances only the side that owns
\* the segment.
advanceLinesOneSided(p, op) ==
    IF op = DIFF_EQUAL
        THEN Panes(addLine(p.left, TRUE), addLine(p.right, TRUE))
    ELSE IF op = DIFF_INSERT
        THEN Panes(p.left, addLine(p.right, TRUE))
    ELSE Panes(addLine(p.left, TRUE), p.right)

\* Variant of the line-boundary step with the flags of insert and delete
\* exchanged.
advanceLinesSwapped(p, op) ==
    IF op = DIFF_EQUAL
        THEN Panes(addLine(p.left, TRUE), addLine(p.right, TRUE))
    ELSE IF op = DIFF_INSERT
        THEN Panes(addLine(p.left, TRUE), addLine(p.right, FALSE))
    ELSE Panes(addLine(p.left, FALSE), addLine(p.right, TRUE))

\* Line-boundary step of a segment that ends with a newline.
advanceLines(p, op) ==
    IF op = DIFF_EQUAL
        THEN Panes(addLine(p.left, TRUE), addLine(p.right, TRUE))
    ELSE IF op = DIFF_INSERT
        THEN Panes(addLine(p.left, FALSE), addLine(p.right, TRUE))
    ELSE Panes(addLine(p.left, TRUE), addLine(p.right, FALSE))

\* Variant of the iteration that crosses a line boundary after every segment.
forEachSpanTextAlwaysAdvance(p, op, spanText) ==
    advanceLines(appendSpans(p, op, spanText), op)

\* One iteration of lines.forEach((spanText, _) => ...).
forEachSpanText(p, op, spanText) ==
    LET appended == appendSpans(p, op, spanText)
    IN  IF endsWith(spanText, NL) THEN advanceLines(appended, op) ELSE appended

\* The whole pass as a function of the diff pairs: the two nested loops, then
\* leftContent.computeLineNumbers() and rightContent.computeLineNumbers().
RECURSIVE linesForEach(_, _, _)
linesForEach(p, op, segs) ==
    IF segs = <<>> THEN p
    ELSE linesForEach(forEachSpanText(p, op, Head(segs)), op, Tail(segs))

RECURSIVE diffsMap(_, _)
diffsMap(p, ds) ==
    IF ds = <<>> THEN p
    ELSE diffsMap(linesForEach(p, Head(ds).op, split(Head(ds).text)), Tail(ds))

buildPanes(ds) ==
    LET p == diffsMap(Panes(Content, Content), ds)
    IN  Panes(computeLineNumbers(p.left), computeLineNumbers(p.right))

\* Variant of the finalization call in which the two passes share the
\* lineNumber counter: a pass goes on counting where the other side stopped.
computeLineNumbersOnShared(p, side) ==
    LET other == IF side = "left" THEN p.right ELSE p.left
        start == 1 + Cardinality({i \in 1..Len(other.lines) :
                                      other.lines[i].lineNumber # <<>>})
    IN  IF side = "left"
            THEN Panes([p.left EXCEPT !.lines = numberFrom(@, 1, start, TRUE)], p.right)
            ELSE Panes(p.left, [p.right EXCEPT !.lines = numberFrom(@, 1, start, TRUE)])

\* leftContent.computeLineNumbers() / rightContent.computeLineNumbers(): the
\* call on one of the two Content instances.
computeLineNumbersOn(p, side) ==
    IF side = "left" THEN Panes(computeLineNumbers(p.left), p.right)
                     ELSE Panes(p.left, computeLineNumbers(p.right))

----------------------------------------------------------------------------
\* The App component: state, the diffContent memo and the event handlers.

Modes == {"", "diff", "json", "unix", "number", "urlendecode", "base64"}

\* Length of the longest common prefix / suffix of two texts.
commonPrefix(a, b) ==
    CHOOSE k \in 0..Len(a) :
        /\ k <= Len(b)
        /\ \A i \in 1..k : a[i] = b[i]
        /\ (k < Len(a) /\ k < Len(b)) => a[k + 1] # b[k + 1]

commonSuffix(a, b) ==
    CHOOSE k \in 0..Len(a) :
        /\ k <= Len(b)
        /\ \A i \in 0..(k - 1) : a[Len(a) - i] = b[Len(b) - i]
        /\ (k < Len(a) /\ k < Len(b)) => a[Len(a) - k] # b[Len(b) - k]

\* dmp.diff_main(inputA, inputB) followed by diff_cleanupSemantic, the external
\* diff source.  Only its contract is modelled: an ordered sequence of
\* non-empty equal / delete / insert pairs that rebuilds inputA on the left and
\* inputB on the right.  The candidates keep k characters of the common prefix
\* and m of the common suffix as equal and replace what lies between.
diff_main(a, b) ==
    LET keep(k, m) ==
            << Diff(DIFF_EQUAL, SubSeq(a, 1, k)),
               Diff(DIFF_DELETE, SubSeq(a, k + 1, Len(a) - m)),
               Diff(DIFF_INSERT, SubSeq(b, k + 1, Len(b) - m)),
               Diff(DIFF_EQUAL, SubSeq(a, Len(a) - m + 1, Len(a))) >>
        nonEmpty(d) == d.text # <<>>
    IN  { SelectSeq(keep(k, m), nonEmpty) :
            k \in 0..commonPrefix(a, b),
            m \in 0..commonSuffix(SubSeq(a, commonPrefix(a, b) + 1, Len(a)),
                                  SubSeq(b, commonPrefix(a, b) + 1, Len(b))) }

\* Variant of the dependency array that leaves inputB out.
depsOfWithoutInputB(a, b, m) == <<a, m>>

\* The dependency array of the diffContent memo.
depsOf(a, b, m) == <<a, b, m>>

\* The callback of the diffContent memo, given what diff_main returned.
memoCallback(m, ds) == IF m # "diff" THEN <<>> ELSE <<buildPanes(ds)>>

\* A render of App with state (m, a, b): the memo recomputes iff a dependency
\* changed since the render before.
Render(m, a, b) ==
    /\ mode' = m
    /\ inputA' = a
    /\ inputB' = b
    /\ IF depsOf(a, b, m) = memoDeps
          THEN UNCHANGED <<memoDeps, diffContent>>
          ELSE /\ memoDeps' = depsOf(a, b, m)
               /\ \E ds \in diff_main(a, b) : diffContent' = memoCallback(m, ds)
    /\ UNCHANGED <<diffPanelHeight, listeners>>
    /\ UNCHANGED passVars
    /\ UNCHANGED paneVars

Event(type, text) == [type |-> type, text |-> text]

\* onChange of the input textarea.
SetInputA(text) ==
    /\ event' = Event("changeA", text)
    /\ Render(mode, text, inputB)

\* onChange of the diff textarea, which is rendered only in mode 'diff'.
SetInputB(text) ==
    /\ mode = "diff"
    /\ event' = Event("changeB", text)
    /\ Render(mode, inputA, text)

\* onChange of the mode select.
SetMode(m) ==
    /\ event' = Event("changeMode", <<>>)
    /\ Render(m, inputA, inputB)

\* Variant of the paste handler without the `if (!mode)` test.
handleRightPanePasteAnyMode(text) ==
    /\ event' = Event("paste", text)
    /\ Render("diff", inputA, text)

\* onPaste of the right pane; text is e.clipboardData.getData('text').
handleRightPanePaste(text) ==
    /\ event' = Event("paste", text)
    /\ IF mode = "" THEN Render("diff", inputA, text)
                    ELSE Render(mode, inputA, inputB)

NextApp ==
    \/ \E text \in Texts : SetInputA(text)
    \/ \E text \in Texts : SetInputB(text)
    \/ \E m \in Modes : SetMode(m)
    \/ \E text \in Texts : handleRightPanePaste(text)

----------------------------------------------------------------------------
\* The resize drag of the diff panel.

InitialHeight == 256    \* useState(256)
MinHeight == 100        \* Math.max(newHeight, 100)

MaxHeight == 600        \* no new drag starts above this height
MaxListeners == 2       \* most drags whose listeners are registered at once

\* Pointer positions (clientY) of the mouse events.
ClientYs == {0, 100, 200, 400}

max(a, b) == IF a >= b THEN a ELSE b

\* Variant of onMouseMove without Math.max.
onMouseMoveUnclamped(drag, clientY) ==
    drag.startHeight - (clientY - drag.startY)

\* onMouseMove of one drag: the height it passes to setDiffPanelHeight.
onMouseMove(drag, clientY) ==
    LET newHeight == drag.startHeight - (clientY - drag.startY)
    IN  max(newHeight, MinHeight)

\* onMouseDown of the resize handle, which is rendered only in mode 'diff':
\* startY and startHeight are captured and the two listeners registered.
handleDiffPanelResizeMouseDown(clientY) ==
    /\ mode = "diff"
    /\ Len(listeners) < MaxListeners
    /\ diffPanelHeight <= MaxHeight
    /\ event' = Event("mousedown", clientY)
    /\ listeners' = Append(listeners,
                           [startY |-> clientY, startHeight |-> diffPanelHeight])
    /\ UNCHANGED <<mode, inputA, inputB, memoDeps, diffContent, diffPanelHeight>>
    /\ UNCHANGED passVars
    /\ UNCHANGED paneVars

\* A mousemove on the document: every registered onMouseMove runs in
\* registration order and the last setDiffPanelHeight of the batch stays.
MouseMove(clientY) ==
    /\ event' = Event("mousemove", clientY)
    /\ diffPanelHeight' =
          IF listeners = <<>> THEN diffPanelHeight
          ELSE onMouseMove(listeners[Len(listeners)], clientY)
    /\ UNCHANGED <<mode, inputA, inputB, memoDeps, diffContent, listeners>>
    /\ UNCHANGED passVars
    /\ UNCHANGED paneVars

\* A mouseup on the document: every registered onMouseUp removes its pair.
MouseUp ==
    /\ event' = Event("mouseup", <<>>)
    /\ listeners' = <<>>
    /\ UNCHANGED <<mode, inputA, inputB, memoDeps, diffContent, diffPanelHeight>>
    /\ UNCHANGED passVars
    /\ UNCHANGED paneVars

NextResize ==
    \/ \E m \in Modes : SetMode(m)
    \/ \E clientY \in ClientYs : handleDiffPanelResizeMouseDown(clientY)
    \/ \E clientY \in ClientYs : MouseMove(clientY)
    \/ MouseUp

----------------------------------------------------------------------------
\* The right pane: detectMode, the converters and renderPaneByMode.
\*
\* The converters call library primitives on inputA (Number, JSON.parse, new
\* URL, atob, btoa, encodeURIComponent, decodeURIComponent).  An input is
\* described by what each primitive makes of it; every combination is an input.
\* Numbers are counted in units of 10^6 (1000 stands for 1000000000): the
\* model checker's integers are 32 bits wide and the program's are doubles.

EpochMin == 1000
EpochMax == 2500
MsThreshold == 100000
MsPerSecond == 1000

\* Values of Number(inputA) around every threshold; <<>> stands for NaN.
NumberSamples ==
    {0, EpochMin - 1, EpochMin, EpochMax, EpochMax + 1,
     MsThreshold, MsThreshold + 1,
     MsPerSecond * EpochMin - 1, MsPerSecond * EpochMin,
     MsPerSecond * EpochMax, MsPerSecond * EpochMax + 1}

\* inputA === '': nothing in it for any primitive to reject but JSON.parse.
EmptyInput ==
    [empty |-> TRUE, brace |-> FALSE, number |-> <<0>>, prefix |-> "",
     url |-> FALSE, base64 |-> FALSE, jsonThrows |-> TRUE, atobThrows |-> FALSE,
     btoaThrows |-> FALSE, encodeThrows |-> FALSE, decodeThrows |-> FALSE]

Inputs ==
    {EmptyInput} \cup
    [empty : {FALSE},
     brace : BOOLEAN,                   \* trimmed.startsWith('{')
     number : {<<>>} \cup {<<n>> : n \in NumberSamples},    \* Number(val)
     prefix : {"", "0x", "0b", "0o"},   \* val.startsWith('0x') ...
     url : BOOLEAN,                     \* new URL(trimmed) does not throw
     base64 : BOOLEAN,                  \* base64Regex.test(trimmed)
     jsonThrows : BOOLEAN,              \* JSON.parse(inputA) throws
     atobThrows : BOOLEAN,              \* atob(inputA) throws
     btoaThrows : BOOLEAN,              \* btoa(inputA) throws
     encodeThrows : BOOLEAN,            \* encodeURIComponent(inputA) throws
     decodeThrows : BOOLEAN]            \* decodeURIComponent(inputA) throws

\* inAllowedRange(num / den)
inAllowedRange(num, den) == num >= EpochMin * den /\ num <= EpochMax * den

isMaybeEpochTime(val) ==
    IF inAllowedRange(val, 1) THEN TRUE
    ELSE IF inAllowedRange(val, MsPerSecond) THEN TRUE
    ELSE FALSE

\* Variant of parseUnixTime that takes the lower end of the seconds range for
\* the milliseconds threshold.
parseUnixTimeLowThreshold(n) ==
    IF n = <<>> THEN <<>>
    ELSE IF n[1] > EpochMin THEN n ELSE <<n[1] * MsPerSecond>>

\* parseUnixTime on n = Number(val): the epoch in milliseconds the Date is
\* built from (<<>>: NaN, an Invalid Date), which fixes both date strings.
parseUnixTime(n) ==
    IF n = <<>> THEN <<>>
    ELSE IF n[1] > MsThreshold THEN n ELSE <<n[1] * MsPerSecond>>

\* parseNumber: the parsed value all four renderings are made of (<<>>: NaN,
\* rendered "NaN", "0xNaN", ...) and the detected base.
parseNumber(d) ==
    [parsed |-> d.number,
     detectedBase |-> IF d.prefix = "0x" THEN 16
                      ELSE IF d.prefix = "0b" THEN 2
                      ELSE IF d.prefix = "0o" THEN 8
                      ELSE 10]

\* Variant of detectMode that tests the base64 pattern before Number().
detectModeBase64First(d) ==
    IF d.brace THEN "json"
    ELSE IF d.base64 THEN "base64"
    ELSE IF d.number # <<>>
        THEN (IF isMaybeEpochTime(d.number[1]) THEN "unix" ELSE "number")
    ELSE IF d.url THEN "urlendecode"
    ELSE ""

detectMode(d) ==
    IF d.brace THEN "json"
    ELSE IF d.number # <<>>
        THEN (IF isMaybeEpochTime(d.number[1]) THEN "unix" ELSE "number")
    ELSE IF d.url THEN "urlendecode"
    ELSE IF d.base64 THEN "base64"
    ELSE ""

\* What a render of the pane comes to: the element kind, the label of the
\* inline error message ("" when there is none) and the values shown.
\* Kind "uncaught" is an exception that leaves the render.
PaneOut(kind, error, shown) == [kind |-> kind, error |-> error, shown |-> shown]

renderPaneByMode(m, d) ==
    IF m = "diff" THEN PaneOut("diffTextarea", "", <<>>)
    ELSE IF m = "json" THEN
        (IF d.jsonThrows THEN PaneOut("message", "Invalid JSON", <<>>)
                         ELSE PaneOut("json", "", <<>>))
    ELSE IF m = "unix" THEN PaneOut("unix", "", <<parseUnixTime(d.number)>>)
    ELSE IF m = "number" THEN
        PaneOut("number", "", <<parseNumber(d).parsed, parseNumber(d).detectedBase>>)
    ELSE IF m = "urlendecode" THEN
        (IF d.encodeThrows THEN PaneOut("uncaught", "", <<>>)
         ELSE IF d.decodeThrows
            THEN PaneOut("urlendecode", "Invalid URI component", <<>>)
         ELSE PaneOut("urlendecode", "", <<>>))
    ELSE IF m = "base64" THEN
        (IF d.btoaThrows THEN PaneOut("uncaught", "", <<>>)
         ELSE IF d.atobThrows THEN PaneOut("base64", "Invalid Base64", <<>>)
         ELSE PaneOut("base64", "", <<>>))
    ELSE IF m = "" THEN PaneOut("noMode", "", <<>>)
    ELSE PaneOut("null", "", <<>>)

\* renderRightPane: the output and, in Autodetect, the mode detected.
renderRightPane(m, d) ==
    IF m = ""
        THEN IF d.empty THEN [auto |-> <<>>, out |-> PaneOut("prompt", "", <<>>)]
             ELSE IF detectMode(d) = ""
                THEN [auto |-> <<>>, out |-> PaneOut("noMode", "", <<>>)]
             ELSE [auto |-> <<detectMode(d)>>,
                   out |-> renderPaneByMode(detectMode(d), d)]
    ELSE [auto |-> <<>>, out |-> renderPaneByMode(m, d)]

----------------------------------------------------------------------------
\* The pass as a state machine.

InitApp ==
    /\ mode = ""
    /\ inputA = <<>>
    /\ inputB = <<>>
    /\ memoDeps = depsOf(<<>>, <<>>, "")
    /\ diffContent = memoCallback("", <<>>)
    /\ event = Event("mount", <<>>)
    /\ diffPanelHeight = InitialHeight
    /\ listeners = <<>>

InitPass ==
    /\ diffs = <<>>
    /\ segments = <<>>
    /\ leftContent = Content
    /\ rightContent = Content
    /\ pc = "stream"

\* The pane of the first render: Autodetect, nothing entered.
InitPaneFirst ==
    /\ paneMode = ""
    /\ paneInput = EmptyInput
    /\ pane = <<>>

Init ==
    /\ InitPass
    /\ InitApp
    /\ InitPaneFirst

\* diffs.map((diff, _) => { const [op, text] = diff; const lines = text.split(..)
MapDiff(d) ==
    /\ pc = "stream"
    /\ segments = <<>>
    /\ d \in NextDiffs(diffs)
    /\ diffs' = Append(diffs, d)
    /\ segments' = split(d.text)
    /\ UNCHANGED <<leftContent, rightContent, pc>>
    /\ UNCHANGED appVars
    /\ UNCHANGED paneVars

ForEachSpanText ==
    /\ pc = "stream"
    /\ segments # <<>>
    /\ LET p == forEachSpanText(Panes(leftContent, rightContent),
                                diffs[Len(diffs)].op, Head(segments))
       IN  /\ leftContent' = p.left
           /\ rightContent' = p.right
    /\ segments' = Tail(segments)
    /\ UNCHANGED <<diffs, pc>>
    /\ UNCHANGED appVars
    /\ UNCHANGED paneVars

ComputeLeft ==
    /\ pc = "stream"
    /\ segments = <<>>
    /\ LET p == computeLineNumbersOn(Panes(leftContent, rightContent), "left")
       IN  /\ leftContent' = p.left
           /\ rightContent' = p.right
    /\ pc' = "computeRight"
    /\ UNCHANGED <<diffs, segments>>
    /\ UNCHANGED appVars
    /\ UNCHANGED paneVars

ComputeRight ==
    /\ pc = "computeRight"
    /\ LET p == computeLineNumbersOn(Panes(leftContent, rightContent), "right")
       IN  /\ leftContent' = p.left
           /\ rightContent' = p.right
    /\ pc' = "done"
    /\ UNCHANGED <<diffs, segments>>
    /\ UNCHANGED appVars
    /\ UNCHANGED paneVars

Next ==
    \/ \E d \in NextDiffs(diffs) : MapDiff(d)
    \/ ForEachSpanText
    \/ ComputeLeft
    \/ ComputeRight

Spec == Init /\ [][Next]_vars

\* The App under its events; the pass variables stay as constructed.
SpecApp == Init /\ [][NextApp]_vars

\* The App under mode changes and the mouse events of the resize handle.
SpecResize == Init /\ [][NextResize]_vars

\* One render of the right pane for any mode and any input.
InitPane ==
    /\ InitPass
    /\ InitApp
    /\ paneMode \in Modes
    /\ paneInput \in Inputs
    /\ pane = <<>>

RenderRightPane ==
    /\ pane = <<>>
    /\ pane' = <<renderRightPane(paneMode, paneInput)>>
    /\ UNCHANGED <<paneMode, paneInput>>
    /\ UNCHANGED passVars
    /\ UNCHANGED appVars

NextPane == RenderRightPane

SpecPane == InitPane /\ [][NextPane]_vars

----------------------------------------------------------------------------
\* Vocabulary of the properties.

SideLeft == {DIFF_EQUAL, DIFF_DELETE}       \* operations fed to the left pane
SideRight == {DIFF_EQUAL, DIFF_INSERT}      \* operations fed to the right pane

leftNumbered == pc \in {"computeRight", "done"}
rightNumbered == pc = "done"

newlines(text) == Cardinality({i \in 1..Len(text) : text[i] = NL})

\* Concatenation of the texts of the pairs of ds whose operation is in side.
RECURSIVE sideText(_, _)
sideText(ds, side) ==
    IF ds = <<>> THEN <<>>
    ELSE (IF Head(ds).op \in side THEN Head(ds).text ELSE <<>>)
         \o sideText(Tail(ds), side)

\* Concatenation of the contents of a line's spans.
RECURSIVE spansText(_)
spansText(spans) ==
    IF spans = <<>> THEN <<>> ELSE Head(spans).content \o spansText(Tail(spans))

isNumbered(line) == line.lineNumber # <<>>

\* The defined line numbers of a pane in row order.
RECURSIVE numbersOf(_)
numbersOf(lines) ==
    IF lines = <<>> THEN <<>>
    ELSE (IF isNumbered(Head(lines)) THEN Head(lines).lineNumber ELSE <<>>)
         \o numbersOf(Tail(lines))

numberedCount(content) ==
    Cardinality({i \in 1..Len(content.lines) : isNumbered(content.lines[i])})

endsWithSpacer(line) ==
    Len(line.spans) > 0 /\ line.spans[Len(line.spans)].state = "spacer"

hasSpacerRow(content) ==
    \E i \in 1..Len(content.lines) : endsWithSpacer(content.lines[i])

\* A text cut into its lines, every newline kept at the end of its line; the
\* piece after the last newline (possibly empty) is the last line.
RECURSIVE linesOf(_)
linesOf(text) ==
    IF newlines(text) = 0 THEN <<text>>
    ELSE LET q == CHOOSE c \in 1..Len(text) :
                    text[c] = NL /\ \A d \in 1..(c - 1) : text[d] # NL
         IN  <<SubSeq(text, 1, q)>> \o linesOf(SubSeq(text, q + 1, Len(text)))

----------------------------------------------------------------------------
\* C1  Length-sync: at every point of the streaming pass (between any two
\* segment steps, for every operation sequence) and after it, the left and
\* the right pane hold the same number of lines.
LengthSync == Len(leftContent.lines) = Len(rightContent.lines)

\* A point in the middle of an operation, after filler rows on both sides.
LengthSyncWitness ==
    /\ pc = "stream"
    /\ segments # <<>>
    /\ Len(leftContent.lines) >= 3
    /\ hasSpacerRow(leftContent)
    /\ hasSpacerRow(rightContent)

\* C2  Numbering monotonicity: once computeLineNumbers has run on a side, the
\* defined line numbers of that side read in row order are exactly 1, 2, 3, ...
\* (no gap, no repeat, the first one is 1), the empty sequence included.
NumberingMonotone ==
    /\ leftNumbered =>
         LET ns == numbersOf(leftContent.lines)
         IN  \A i \in 1..Len(ns) : ns[i] = i
    /\ rightNumbered =>
         LET ns == numbersOf(rightContent.lines)
         IN  \A i \in 1..Len(ns) : ns[i] = i

\* Both sides numbered, the left with an unnumbered row between numbered ones.
NumberingMonotoneWitness ==
    /\ pc = "done"
    /\ Len(numbersOf(rightContent.lines)) >= 2
    /\ \E i, j, k \in 1..Len(leftContent.lines) :
         /\ i < j /\ j < k
         /\ isNumbered(leftContent.lines[i])
         /\ ~isNumbered(leftContent.lines[j])
         /\ isNumbered(leftContent.lines[k])

\* C3  Filler lines are never numbered: after computeLineNumbers no line that
\* was finalized by addLine(false) (a line ending in a spacer span) has a
\* defined lineNumber, on either side.
FillerNeverNumbered ==
    /\ leftNumbered =>
         \A i \in 1..Len(leftContent.lines) :
            leftContent.lines[i].showNextLineNumber = <<FALSE>>
               => ~isNumbered(leftContent.lines[i])
    /\ rightNumbered =>
         \A i \in 1..Len(rightContent.lines) :
            rightContent.lines[i].showNextLineNumber = <<FALSE>>
               => ~isNumbered(rightContent.lines[i])

\* C4  One number per real source line: after computeLineNumbers the left has
\* 1 + (newlines of the equal and delete texts) numbered lines and the right
\* has 1 + (newlines of the equal and insert texts).
OneNumberPerSourceLine ==
    pc = "done" =>
        /\ numberedCount(leftContent) = 1 + newlines(sideText(diffs, SideLeft))
        /\ numberedCount(rightContent) = 1 + newlines(sideText(diffs, SideRight))

\* The two sides have different numbers of source lines and filler rows exist.
OneNumberPerSourceLineWitness ==
    /\ pc = "done"
    /\ numberedCount(leftContent) >= 2
    /\ numberedCount(rightContent) >= 2
    /\ numberedCount(leftContent) # numberedCount(rightContent)
    /\ hasSpacerRow(leftContent)

AllEqual(ds) == \A i \in 1..Len(ds) : ds[i].op = DIFF_EQUAL

\* C5  No-op idempotence: for a sequence of equal operations covering text T
\* the two sides end identical (lines, spans, states, line numbers), every
\* span is unchanged, and row i holds the i-th line of T and carries number i.
NoOpIdempotence ==
    (pc = "done" /\ AllEqual(diffs)) =>
        LET T == sideText(diffs, {DIFF_EQUAL})
            rows == leftContent.lines
        IN  /\ leftContent = rightContent
            /\ Len(rows) = Len(linesOf(T))
            /\ \A i \in 1..Len(rows) :
                 /\ spansText(rows[i].spans) = linesOf(T)[i]
                 /\ rows[i].lineNumber = <<i>>
                 /\ \A j \in 1..Len(rows[i].spans) :
                      rows[i].spans[j].state = "unchanged"

\* Two equal operations over three lines, one row made of two spans.
NoOpIdempotenceWitness ==
    /\ pc = "done"
    /\ AllEqual(diffs)
    /\ Len(diffs) >= 2
    /\ Len(leftContent.lines) >= 3
    /\ \E i \in 1..Len(leftContent.lines) : Len(leftContent.lines[i].spans) >= 2

\* C6  Pure insertion: [(delete, ""), (insert, "a\nb\n")] yields a right side
\* whose rows "a" and "b" are numbered 1 and 2, and a left side whose two
\* corresponding rows are filler rows (ending in a spacer span), neither of
\* which has a line number.
PureInsertionResult ==
    (pc = "done" /\ diffs = PureInsertion) =>
        /\ Len(leftContent.lines) >= 2 /\ Len(rightContent.lines) >= 2
        /\ spansText(rightContent.lines[1].spans) = <<"a", NL>>
        /\ spansText(rightContent.lines[2].spans) = <<"b", NL>>
        /\ rightContent.lines[1].lineNumber = <<1>>
        /\ rightContent.lines[2].lineNumber = <<2>>
        /\ \A i \in 1..2 :
             /\ endsWithSpacer(leftContent.lines[i])
             /\ ~isNumbered(leftContent.lines[i])

\* C7  Pure deletion: [(insert, ""), (delete, "a\nb\n")] yields a left side
\* whose rows "a" and "b" are numbered 1 and 2, and a right side whose two
\* corresponding rows are filler rows without line numbers.
PureDeletionResult ==
    (pc = "done" /\ diffs = PureDeletion) =>
        /\ Len(leftContent.lines) >= 2 /\ Len(rightContent.lines) >= 2
        /\ spansText(leftContent.lines[1].spans) = <<"a", NL>>
        /\ spansText(leftContent.lines[2].spans) = <<"b", NL>>
        /\ leftContent.lines[1].lineNumber = <<1>>
        /\ leftContent.lines[2].lineNumber = <<2>>
        /\ \A i \in 1..2 :
             /\ endsWithSpacer(rightContent.lines[i])
             /\ ~isNumbered(rightContent.lines[i])

hasSpan(line, content, state) ==
    \E j \in 1..Len(line.spans) : line.spans[j] = DiffSpan(content, state)

noSpacerSpan(content) ==
    \A i \in 1..Len(content.lines) : \A j \in 1..Len(content.lines[i].spans) :
        content.lines[i].spans[j].state # "spacer"

\* C8  Mixed edit: [(equal,"foo\n"), (delete,"bar"), (insert,"baz"),
\* (equal,"\n")] yields, on the left, row 1 numbered 1 holding "foo" and row 2
\* numbered 2 holding a removed span "bar"; on the right, row 1 numbered 1
\* holding "foo" and row 2 numbered 2 holding an added span "baz"; no spacer
\* span anywhere; three rows on each side, the third without spans.
MixedEditResult ==
    (pc = "done" /\ diffs = MixedEdit) =>
        /\ Len(leftContent.lines) = 3 /\ Len(rightContent.lines) = 3
        /\ spansText(leftContent.lines[1].spans) = <<"f", "o", "o", NL>>
        /\ spansText(rightContent.lines[1].spans) = <<"f", "o", "o", NL>>
        /\ leftContent.lines[1].lineNumber = <<1>>
        /\ rightContent.lines[1].lineNumber = <<1>>
        /\ hasSpan(leftContent.lines[2], <<"b", "a", "r">>, "removed")
        /\ spansText(leftContent.lines[2].spans) = <<"b", "a", "r", NL>>
        /\ hasSpan(rightContent.lines[2], <<"b", "a", "z">>, "added")
        /\ spansText(rightContent.lines[2].spans) = <<"b", "a", "z", NL>>
        /\ leftContent.lines[2].lineNumber = <<2>>
        /\ rightContent.lines[2].lineNumber = <<2>>
        /\ noSpacerSpan(leftContent) /\ noSpacerSpan(rightContent)
        /\ leftContent.lines[3].spans = <<>>
        /\ rightContent.lines[3].spans = <<>>

MixedEditWitness == pc = "done" /\ diffs = MixedEdit

\* C9  Trailing partial line.
\* The piece of a text after its last newline.
finalSegment(text) == linesOf(text)[Len(linesOf(text))]

\* The operation of the last pair of ds that holds a newline, if any.
RECURSIVE lastNewlineOp(_)
lastNewlineOp(ds) ==
    IF ds = <<>> THEN {}
    ELSE IF newlines(ds[Len(ds)].text) > 0 THEN {ds[Len(ds)].op}
    ELSE lastNewlineOp(SubSeq(ds, 1, Len(ds) - 1))

\* The last line was never finalized and is numbered by the carry.
trailingLineRule(content) ==
    LET n == Len(content.lines)
    IN  /\ last(content).showNextLineNumber = <<>>
        /\ isNumbered(last(content))
             <=> (n = 1 \/ content.lines[n - 1].showNextLineNumber = <<TRUE>>)

\* C9 as stated: when the text fed to a side does not end in a newline, its
\* final segment is the spans of that side's last line, whose flag is unset
\* and which is numbered iff it is the first line or the line before it has
\* showNextLineNumber true.
TrailingPartialLineAsStated ==
    pc = "done" =>
        /\ ~endsWith(sideText(diffs, SideLeft), NL) =>
             /\ spansText(last(leftContent).spans)
                    = finalSegment(sideText(diffs, SideLeft))
             /\ trailingLineRule(leftContent)
        /\ ~endsWith(sideText(diffs, SideRight), NL) =>
             /\ spansText(last(rightContent).spans)
                    = finalSegment(sideText(diffs, SideRight))
             /\ trailingLineRule(rightContent)

\* C9 amended: when the text fed to a side does not end in a newline, that
\* side's last line has its flag unset and is numbered iff it is the first
\* line or the line before it has showNextLineNumber true; and if moreover the
\* last newline-terminated segment of the sequence (if any) was fed to that
\* side, the final segment of the side's text is the spans of its last line.
TrailingPartialLine ==
    pc = "done" =>
        /\ ~endsWith(sideText(diffs, SideLeft), NL) =>
             /\ trailingLineRule(leftContent)
             /\ lastNewlineOp(diffs) \subseteq SideLeft =>
                    spansText(last(leftContent).spans)
                        = finalSegment(sideText(diffs, SideLeft))
        /\ ~endsWith(sideText(diffs, SideRight), NL) =>
             /\ trailingLineRule(rightContent)
             /\ lastNewlineOp(diffs) \subseteq SideRight =>
                    spansText(last(rightContent).spans)
                        = finalSegment(sideText(diffs, SideRight))

\* The left text ends in a partial line made of two spans, after a newline
\* of its own.
TrailingPartialLineWitness ==
    /\ pc = "done"
    /\ ~endsWith(sideText(diffs, SideLeft), NL)
    /\ lastNewlineOp(diffs) # {}
    /\ lastNewlineOp(diffs) \subseteq SideLeft
    /\ Len(last(leftContent).spans) >= 2
    /\ spansText(last(leftContent).spans) # <<>>

\* C10  No stale diff: after any sequence of edits, mode changes and pastes,
\* in mode 'diff' the memoised diffContent is the pane pair built (from fresh
\* Content instances) out of a diff of the current inputA and inputB, and in
\* every other mode it is null.
NoStaleDiff ==
    /\ mode = "diff" =>
         \E ds \in diff_main(inputA, inputB) : diffContent = <<buildPanes(ds)>>
    /\ mode # "diff" => diffContent = <<>>

\* In diff mode with two different non-empty inputs after both were edited.
NoStaleDiffWitness ==
    /\ mode = "diff"
    /\ inputA # <<>> /\ inputB # <<>> /\ inputA # inputB
    /\ diffContent # <<>>
    /\ Len(diffContent[1].left.lines) >= 2

\* C11  Paste switches to diff: a paste on the right pane while mode is ''
\* sets mode to 'diff' and inputB to the pasted text and leaves inputA
\* unchanged; a paste while mode is non-empty changes none of mode, inputA,
\* inputB.
PasteSwitchesToDiff ==
    [][event'.type = "paste" =>
          IF mode = ""
             THEN mode' = "diff" /\ inputB' = event'.text /\ inputA' = inputA
             ELSE mode' = mode /\ inputA' = inputA /\ inputB' = inputB]_vars

\* A paste in Autodetect mode has just replaced a non-empty inputB, next to a
\* non-empty inputA.
PasteSwitchesToDiffWitness ==
    /\ event.type = "paste"
    /\ event.text # <<>>
    /\ mode = "diff"
    /\ inputB = event.text
    /\ inputA # <<>>
    /\ inputA # inputB

rendered == pane # <<>>

\* C12  In base64 mode, for every input, input that is not valid base64 is
\* reported as the inline message 'Invalid Base64: ...' and the render of the
\* pane completes without an uncaught exception.
Base64RenderCompletes ==
    (rendered /\ paneMode = "base64") =>
        /\ pane[1].out.kind # "uncaught"
        /\ paneInput.atobThrows => pane[1].out.error = "Invalid Base64"

\* C13  In json mode and in urlendecode mode, input rejected by JSON.parse or
\* by decodeURIComponent is reported as the inline message 'Invalid JSON: ...'
\* / 'Invalid URI component: ...' and the render of the pane completes without
\* an uncaught exception, for every input.
JsonUrlRenderCompletes ==
    /\ (rendered /\ paneMode = "json") =>
          /\ pane[1].out.kind # "uncaught"
          /\ paneInput.jsonThrows => pane[1].out.error = "Invalid JSON"
    /\ (rendered /\ paneMode = "urlendecode") =>
          /\ pane[1].out.kind # "uncaught"
          /\ paneInput.decodeThrows => pane[1].out.error = "Invalid URI component"

\* C14  Non-numeric text given to the number mode or to the unix mode is
\* reported as a labeled inline error message and is not rendered as
\* conversion output.
NonNumericReported ==
    (rendered /\ paneMode \in {"number", "unix"} /\ paneInput.number = <<>>) =>
        /\ pane[1].out.error # ""
        /\ pane[1].out.kind \notin {"number", "unix"}

\* C15  Unix time, seconds and milliseconds: in a unix pane, a number that
\* isMaybeEpochTime accepts as seconds is shown as the instant 1000 times it,
\* a number it accepts as milliseconds is shown unscaled, and the seconds
\* value and the milliseconds value of one instant show the same date.
UnixSecondsAndMillis ==
    (rendered /\ pane[1].out.kind = "unix" /\ paneInput.number # <<>>) =>
        LET n == paneInput.number[1]
            shown == pane[1].out.shown[1]
        IN  /\ inAllowedRange(n, 1) =>
                /\ shown = <<n * MsPerSecond>>
                /\ shown = parseUnixTime(<<n * MsPerSecond>>)
            /\ inAllowedRange(n, MsPerSecond) => shown = <<n>>

\* Autodetect took a number at an end of the seconds range for unix time.
UnixSecondsAndMillisWitness ==
    /\ rendered
    /\ paneMode = ""
    /\ pane[1].auto = <<"unix">>
    /\ paneInput.number \in {<<EpochMin>>, <<EpochMax>>}
    /\ pane[1].out.shown[1] # paneInput.number

----------------------------------------------------------------------------
\* Vocabulary of the step properties of the streaming pass.

\* A step that processes one segment: Head(segments), of the current pair.
SegmentStep == pc = "stream" /\ segments # <<>> /\ segments' = Tail(segments)
stepOp == diffs[Len(diffs)].op
stepText == Head(segments)

\* The spans a step appended to the line that was current before it.
grownSpans(before, after) ==
    SubSeq(after.lines[Len(before.lines)].spans,
           Len(last(before).spans) + 1,
           Len(after.lines[Len(before.lines)].spans))

isSpacer(span) == span.state = "spacer"
notSpacer(span) == span.state # "spacer"

hasState(content, state) ==
    \E i \in 1..Len(content.lines) : \E j \in 1..Len(content.lines[i].spans) :
        content.lines[i].spans[j].state = state

hasFlag(content, flag) ==
    \E i \in 1..Len(content.lines) : content.lines[i].showNextLineNumber = <<flag>>

\* C16  Span routing: for each segment an equal operation appends one
\* 'unchanged' span with the segment's content to the current line of both
\* sides, an insert one 'added' span to the right current line only, a delete
\* one 'removed' span to the left current line only; hence the left side
\* never holds an 'added' span and the right side never a 'removed' one.
SpanRouting ==
    /\ [][SegmentStep =>
            LET toLeft == SelectSeq(grownSpans(leftContent, leftContent'), notSpacer)
                toRight == SelectSeq(grownSpans(rightContent, rightContent'), notSpacer)
            IN  IF stepOp = DIFF_EQUAL
                    THEN /\ toLeft = <<DiffSpan(stepText, "unchanged")>>
                         /\ toRight = <<DiffSpan(stepText, "unchanged")>>
                ELSE IF stepOp = DIFF_INSERT
                    THEN /\ toLeft = <<>>
                         /\ toRight = <<DiffSpan(stepText, "added")>>
                ELSE /\ toLeft = <<DiffSpan(stepText, "removed")>>
                     /\ toRight = <<>>]_vars
    /\ [](~hasState(leftContent, "added") /\ ~hasState(rightContent, "removed"))

\* All three operations have been routed.
SpanRoutingWitness ==
    /\ hasState(leftContent, "removed")
    /\ hasState(rightContent, "added")
    /\ hasState(leftContent, "unchanged")
    /\ hasState(rightContent, "unchanged")

\* C17  Lock-step line advance: exactly when a segment ends in a newline,
\* addLine is called once on each side in that step, with (left, right) flags
\* (true, true) for equal, (false, true) for insert and (true, false) for
\* delete; a segment not ending in a newline calls addLine on neither side.
LockStepAdvance ==
    [][SegmentStep =>
          LET nl == Len(leftContent.lines)
              nr == Len(rightContent.lines)
          IN  IF endsWith(stepText, NL)
                THEN /\ Len(leftContent'.lines) = nl + 1
                     /\ Len(rightContent'.lines) = nr + 1
                     /\ leftContent'.lines[nl].showNextLineNumber
                            = <<stepOp # DIFF_INSERT>>
                     /\ rightContent'.lines[nr].showNextLineNumber
                            = <<stepOp # DIFF_DELETE>>
                ELSE /\ Len(leftContent'.lines) = nl
                     /\ Len(rightContent'.lines) = nr
                     /\ leftContent'.lines[nl].showNextLineNumber = <<>>
                     /\ rightContent'.lines[nr].showNextLineNumber = <<>>]_vars

\* Boundaries of both flags were crossed on both sides, and a segment without
\* a newline has been appended since.
LockStepAdvanceWitness ==
    /\ pc = "stream"
    /\ hasFlag(leftContent, TRUE) /\ hasFlag(leftContent, FALSE)
    /\ hasFlag(rightContent, TRUE) /\ hasFlag(rightContent, FALSE)
    /\ last(leftContent).spans # <<>>

\* C18  addLine effect: addLine(b) records b as showNextLineNumber of the
\* current last line, appends exactly one spacer span "\n" to it iff b is
\* false (none when b is true) and then grows lines by exactly one new
\* span-less line; lines never shrinks and is never empty, and starts as
\* exactly one span-less line.
addLineEffect(before, after) ==
    LET n == Len(before.lines)
        b == after.lines[n].showNextLineNumber
        spacers == SelectSeq(grownSpans(before, after), isSpacer)
    IN  /\ b \in {<<TRUE>>, <<FALSE>>}
        /\ spacers = IF b = <<FALSE>> THEN <<DiffSpan(<<NL>>, "spacer")>> ELSE <<>>
        /\ b = <<FALSE>> => lastSpan(after.lines[n]) = <<DiffSpan(<<NL>>, "spacer")>>
        /\ Len(after.lines) = n + 1
        /\ after.lines[n + 1] = DiffLine

AddLineEffect ==
    /\ [][(SegmentStep /\ endsWith(stepText, NL)) =>
             /\ addLineEffect(leftContent, leftContent')
             /\ addLineEffect(rightContent, rightContent')]_vars
    /\ [][/\ Len(leftContent'.lines) >= Len(leftContent.lines)
          /\ Len(rightContent'.lines) >= Len(rightContent.lines)]_vars
    /\ [](Len(leftContent.lines) >= 1 /\ Len(rightContent.lines) >= 1)
    /\ [](diffs = <<>> /\ pc = "stream"
            => leftContent.lines = <<DiffLine>> /\ rightContent.lines = <<DiffLine>>)

\* On the left addLine(true) closed a line holding a span without adding a
\* spacer and addLine(false) closed another line with one.
AddLineEffectWitness ==
    /\ Len(leftContent.lines) >= 3
    /\ \E i \in 1..Len(leftContent.lines) :
          /\ leftContent.lines[i].showNextLineNumber = <<TRUE>>
          /\ leftContent.lines[i].spans # <<>>
          /\ SelectSeq(leftContent.lines[i].spans, isSpacer) = <<>>
    /\ \E i \in 1..Len(leftContent.lines) :
          /\ leftContent.lines[i].showNextLineNumber = <<FALSE>>
          /\ lastSpan(leftContent.lines[i]) = <<DiffSpan(<<NL>>, "spacer")>>

\* C19  Carry rule of computeLineNumbers: line 0 always receives lineNumber 1;
\* line i+1 receives a lineNumber iff line i's showNextLineNumber is true (an
\* unset flag counting as false); each assigned number is one more than the
\* number assigned before it.
carryRule(lines) ==
    /\ lines[1].lineNumber = <<1>>
    /\ \A i \in 1..(Len(lines) - 1) :
          isNumbered(lines[i + 1]) <=> lines[i].showNextLineNumber = <<TRUE>>
    /\ \A i, k \in 1..Len(lines) :
          (/\ i < k
           /\ isNumbered(lines[i]) /\ isNumbered(lines[k])
           /\ \A j \in (i + 1)..(k - 1) : ~isNumbered(lines[j]))
            => lines[k].lineNumber[1] = lines[i].lineNumber[1] + 1

CarryRule ==
    /\ leftNumbered => carryRule(leftContent.lines)
    /\ rightNumbered => carryRule(rightContent.lines)

\* On the right a row after a false flag is skipped and numbering resumes
\* after it.
CarryRuleWitness ==
    /\ pc = "done"
    /\ \E i \in 1..(Len(rightContent.lines) - 2) :
          /\ rightContent.lines[i].showNextLineNumber = <<FALSE>>
          /\ ~isNumbered(rightContent.lines[i + 1])
          /\ rightContent.lines[i + 1].showNextLineNumber = <<TRUE>>
          /\ isNumbered(rightContent.lines[i + 2])

\* C20  Only the current line is mutated: every span append and every
\* showNextLineNumber write targets the line that is last at that moment;
\* once addLine has pushed a new line, the spans and the flag of every earlier
\* line are left unchanged by all later steps.
earlierLinesKept(before, after) ==
    /\ Len(after.lines) >= Len(before.lines)
    /\ \A i \in 1..(Len(before.lines) - 1) :
          /\ after.lines[i].spans = before.lines[i].spans
          /\ after.lines[i].showNextLineNumber = before.lines[i].showNextLineNumber

OnlyCurrentLineMutated ==
    [][/\ earlierLinesKept(leftContent, leftContent')
       /\ earlierLinesKept(rightContent, rightContent')]_vars

\* A span was appended to a third line while two earlier lines hold spans.
OnlyCurrentLineMutatedWitness ==
    /\ pc = "stream"
    /\ Len(leftContent.lines) >= 3
    /\ last(leftContent).spans # <<>>
    /\ leftContent.lines[1].spans # <<>>
    /\ leftContent.lines[2].spans # <<>>
    /\ last(rightContent).spans # <<>>

\* Concatenation of a sequence of texts.
RECURSIVE concat(_)
concat(texts) ==
    IF texts = <<>> THEN <<>> ELSE Head(texts) \o concat(Tail(texts))

\* The step that takes the next pair and splits its text.
SplitStep == diffs' # diffs

\* C21  Newline-keeping split: the segments of an operation's text concatenate
\* in order to the text; every segment except possibly the last ends with a
\* newline, no segment holds a newline anywhere but at its end, and the last
\* segment ends with a newline iff the text does.
NewlineKeepingSplit ==
    [][SplitStep =>
          LET text == diffs'[Len(diffs')].text
              segs == segments'
          IN  /\ Len(segs) >= 1
              /\ concat(segs) = text
              /\ \A i \in 1..(Len(segs) - 1) : endsWith(segs[i], NL)
              /\ \A i \in 1..Len(segs) :
                    \A j \in 1..(Len(segs[i]) - 1) : segs[i][j] # NL
              /\ endsWith(segs[Len(segs)], NL) <=> endsWith(text, NL)]_vars

\* A text with a newline in the middle has just been split in two.
NewlineKeepingSplitWitness ==
    /\ diffs # <<>>
    /\ diffs[Len(diffs)].text = <<NL, "a">>
    /\ segments = << <<NL>>, <<"a">> >>

\* C22  showNextLineNumber is set once: at every point of the streaming pass,
\* on each side, every line except the last has showNextLineNumber set to true
\* or false and the last line has it unset; a flag once set is never written
\* again.
flagsSet(content) ==
    /\ \A i \in 1..(Len(content.lines) - 1) :
          content.lines[i].showNextLineNumber \in {<<TRUE>>, <<FALSE>>}
    /\ last(content).showNextLineNumber = <<>>

flagsKept(before, after) ==
    \A i \in 1..Len(before.lines) :
        before.lines[i].showNextLineNumber # <<>>
            => /\ i <= Len(after.lines)
               /\ after.lines[i].showNextLineNumber
                      = before.lines[i].showNextLineNumber

FlagSetOnce ==
    /\ [](flagsSet(leftContent) /\ flagsSet(rightContent))
    /\ [][/\ flagsKept(leftContent, leftContent')
          /\ flagsKept(rightContent, rightContent')]_vars

\* Flags of both values were written on each side and numbering has run.
FlagSetOnceWitness ==
    /\ pc = "done"
    /\ hasFlag(leftContent, TRUE) /\ hasFlag(leftContent, FALSE)
    /\ hasFlag(rightContent, TRUE) /\ hasFlag(rightContent, FALSE)

\* The panes as the streaming pass leaves them, before any numbering.
streamed(ds) == diffsMap(Panes(Content, Content), ds)

\* The two finalization calls in either order.
leftThenRight(p) == computeLineNumbersOn(computeLineNumbersOn(p, "left"), "right")
rightThenLeft(p) == computeLineNumbersOn(computeLineNumbersOn(p, "right"), "left")

\* C23  The two finalization passes are independent: computeLineNumbers on
\* one side reads and writes only that side's lines, so left-then-right and
\* right-then-left give the same lineNumber on every line of both sides.
IndependentPasses ==
    /\ [](pc = "done" =>
            /\ leftThenRight(streamed(diffs)) = rightThenLeft(streamed(diffs))
            /\ Panes(leftContent, rightContent) = rightThenLeft(streamed(diffs)))
    /\ [][/\ (pc = "stream" /\ pc' = "computeRight") => rightContent' = rightContent
          /\ (pc = "computeRight" /\ pc' = "done") => leftContent' = leftContent]_vars

\* Both passes have run and numbered the two sides differently.
IndependentPassesWitness ==
    /\ pc = "done"
    /\ numberedCount(leftContent) >= 2
    /\ numberedCount(rightContent) >= 2
    /\ numberedCount(leftContent) # numberedCount(rightContent)

\* The text a pane shows without its filler: the contents of the non-spacer
\* spans in row and span order.
paneText(content) ==
    concat([i \in 1..Len(content.lines) |->
                spansText(SelectSeq(content.lines[i].spans, notSpacer))])

\* C24  Text reconstruction: for every operation sequence the non-spacer span
\* contents of the left side, in row and span order, concatenate to the equal
\* and delete texts (the original text) and those of the right side to the
\* equal and insert texts (the modified text); nothing is lost, duplicated or
\* reordered.
TextReconstruction ==
    segments = <<>> =>
        /\ paneText(leftContent) = sideText(diffs, SideLeft)
        /\ paneText(rightContent) = sideText(diffs, SideRight)

\* A finished pass over texts that differ, with a filler row on the left.
TextReconstructionWitness ==
    /\ pc = "done"
    /\ hasSpacerRow(leftContent)
    /\ paneText(leftContent) # <<>>
    /\ paneText(rightContent) # paneText(leftContent)
    /\ Len(paneText(rightContent)) >= 3

\* Newline characters of the pane's own text in the rows above row k.
newlinesAbove(content, k) ==
    newlines(concat([i \in 1..(k - 1) |->
                spansText(SelectSeq(content.lines[i].spans, notSpacer))]))

rowNumberIsSourceLine(content) ==
    \A k \in 1..Len(content.lines) :
        isNumbered(content.lines[k])
            => content.lines[k].lineNumber[1] = 1 + newlinesAbove(content, k)

\* C25  Row number equals source line number: after computeLineNumbers, a row
\* with a defined lineNumber n has n = 1 + the number of newline characters of
\* that side's own text (non-spacer spans) in the rows above it.
RowNumberIsSourceLine ==
    /\ leftNumbered => rowNumberIsSourceLine(leftContent)
    /\ rightNumbered => rowNumberIsSourceLine(rightContent)

\* On the right a numbered row lies below an unnumbered one, so its number is
\* smaller than its row index.
RowNumberIsSourceLineWitness ==
    /\ pc = "done"
    /\ \E k \in 3..Len(rightContent.lines) :
          /\ isNumbered(rightContent.lines[k])
          /\ rightContent.lines[k].lineNumber[1] >= 2
          /\ rightContent.lines[k].lineNumber[1] < k

\* C26  Line shape invariant: at every point of the streaming pass, on each
\* side, every line except the last has at least one span and its last span's
\* content ends with a newline; no other span of any line ends with a newline;
\* hence a line with zero spans can only be the last line of a side.
lineShape(content) ==
    LET n == Len(content.lines)
    IN  /\ \A i \in 1..(n - 1) :
              /\ content.lines[i].spans # <<>>
              /\ endsWith(content.lines[i].spans[Len(content.lines[i].spans)].content, NL)
        /\ \A i \in 1..n : \A j \in 1..Len(content.lines[i].spans) :
              endsWith(content.lines[i].spans[j].content, NL)
                  => i < n /\ j = Len(content.lines[i].spans)
        /\ \A i \in 1..n : content.lines[i].spans = <<>> => i = n

LineShape == lineShape(leftContent) /\ lineShape(rightContent)

\* Mid-pass the left holds a closed line of two spans, a line closed by a
\* spacer alone, and an open last line with a span.
LineShapeWitness ==
    /\ pc = "stream"
    /\ \E i \in 1..(Len(leftContent.lines) - 1) : Len(leftContent.lines[i].spans) >= 2
    /\ \E i \in 1..(Len(rightContent.lines) - 1) :
          rightContent.lines[i].spans = <<DiffSpan(<<NL>>, "spacer")>>
    /\ last(leftContent).spans # <<>>

\* C27  Spacer placement: in every reachable state a spacer span has content
\* exactly "\n" and is the last span of a non-last line, and at any row index
\* at most one of the two sides ends with a spacer span.
spacerPlaced(content) ==
    \A i \in 1..Len(content.lines) : \A j \in 1..Len(content.lines[i].spans) :
        isSpacer(content.lines[i].spans[j])
            => /\ content.lines[i].spans[j].content = <<NL>>
               /\ j = Len(content.lines[i].spans)
               /\ i < Len(content.lines)

SpacerPlacement ==
    /\ spacerPlaced(leftContent)
    /\ spacerPlaced(rightContent)
    /\ \A i \in 1..Len(leftContent.lines) :
          i <= Len(rightContent.lines)
              => ~(endsWithSpacer(leftContent.lines[i])
                     /\ endsWithSpacer(rightContent.lines[i]))

\* Both sides hold a filler row, at different indices, one of them after
\* another span of its line.
SpacerPlacementWitness ==
    /\ hasSpacerRow(leftContent)
    /\ hasSpacerRow(rightContent)
    /\ \E i \in 1..Len(leftContent.lines) :
          endsWithSpacer(leftContent.lines[i]) /\ Len(leftContent.lines[i].spans) >= 2

\* The pairs of ds whose text is not empty.
notEmptyText(d) == d.text # <<>>

lineNumbersOf(content) ==
    [i \in 1..Len(content.lines) |-> content.lines[i].lineNumber]

\* C28  Empty operation text: an operation whose text is the empty string
\* appends exactly one span with empty content to the side(s) selected by its
\* operation, calls addLine on neither side, and so changes no line count and
\* no line number.
EmptyOperationText ==
    /\ [][(SplitStep /\ diffs'[Len(diffs')].text = <<>>) => segments' = << <<>> >>]_vars
    /\ [][(SegmentStep /\ diffs[Len(diffs)].text = <<>>) =>
            LET toLeft == grownSpans(leftContent, leftContent')
                toRight == grownSpans(rightContent, rightContent')
                state == IF stepOp = DIFF_EQUAL THEN "unchanged"
                         ELSE IF stepOp = DIFF_INSERT THEN "added" ELSE "removed"
            IN  /\ segments' = <<>>
                /\ toLeft = IF stepOp \in SideLeft
                                THEN <<DiffSpan(<<>>, state)>> ELSE <<>>
                /\ toRight = IF stepOp \in SideRight
                                THEN <<DiffSpan(<<>>, state)>> ELSE <<>>
                /\ Len(leftContent'.lines) = Len(leftContent.lines)
                /\ Len(rightContent'.lines) = Len(rightContent.lines)
                /\ last(leftContent').showNextLineNumber = <<>>
                /\ last(rightContent').showNextLineNumber = <<>>]_vars
    /\ [](pc = "done" =>
            LET without == buildPanes(SelectSeq(diffs, notEmptyText))
            IN  /\ lineNumbersOf(leftContent) = lineNumbersOf(without.left)
                /\ lineNumbersOf(rightContent) = lineNumbersOf(without.right))

\* A finished pass that took an empty delete, left its empty span on the left,
\* and still has several rows.
EmptyOperationTextWitness ==
    /\ pc = "done"
    /\ \E i \in 1..Len(diffs) : diffs[i] = Diff(DIFF_DELETE, <<>>)
    /\ \E i \in 1..Len(leftContent.lines) :
          \E j \in 1..Len(leftContent.lines[i].spans) :
              leftContent.lines[i].spans[j] = DiffSpan(<<>>, "removed")
    /\ Len(rightContent.lines) >= 3

\* C29  Autodetect priority: detectMode classifies the trimmed input by the
\* first matching rule in the fixed order: starts with '{' gives 'json'; parses
\* as a number gives 'unix' if isMaybeEpochTime holds, else 'number'; parses as
\* a URL gives 'urlendecode'; matches the base64 pattern gives 'base64';
\* otherwise ''.  It never returns 'diff', so an input matching several rules
\* always gets the earliest one.
AutodetectPriority ==
    (rendered /\ paneMode = "" /\ ~paneInput.empty) =>
        LET d == paneInput
            auto == pane[1].auto
            isNumber == d.number # <<>>
        IN  /\ d.brace => auto = <<"json">>
            /\ (~d.brace /\ isNumber /\ isMaybeEpochTime(d.number[1]))
                    => auto = <<"unix">>
            /\ (~d.brace /\ isNumber /\ ~isMaybeEpochTime(d.number[1]))
                    => auto = <<"number">>
            /\ (~d.brace /\ ~isNumber /\ d.url) => auto = <<"urlendecode">>
            /\ (~d.brace /\ ~isNumber /\ ~d.url /\ d.base64) => auto = <<"base64">>
            /\ (~d.brace /\ ~isNumber /\ ~d.url /\ ~d.base64)
                    => auto = <<>> /\ pane[1].out.kind = "noMode"
            /\ auto # <<"diff">>

\* An input that is a number, a URL and base64 at once was detected as a
\* number.
AutodetectPriorityWitness ==
    /\ rendered
    /\ paneMode = ""
    /\ ~paneInput.brace
    /\ paneInput.number = <<0>>
    /\ paneInput.url
    /\ paneInput.base64
    /\ pane[1].auto = <<"number">>

\* C30  Resize clamp: starting from 256, after any sequence of resize drags
\* (mousedown, any number of mousemove events, mouseup) diffPanelHeight is at
\* least 100; each mousemove sets it to max(startHeight - (clientY - startY),
\* 100) with startHeight and startY fixed at mousedown; after mouseup, further
\* mousemove events of that drag no longer change it.
ResizeClamp ==
    /\ [](diffPanelHeight >= MinHeight)
    /\ [](event.type = "mount" => diffPanelHeight = InitialHeight)
    /\ [][event'.type = "mousedown" =>
            /\ listeners'[Len(listeners')].startY = event'.text
            /\ listeners'[Len(listeners')].startHeight = diffPanelHeight
            /\ diffPanelHeight' = diffPanelHeight]_vars
    /\ [][event'.type = "mousemove" =>
            /\ listeners' = listeners
            /\ diffPanelHeight' =
                  IF listeners = <<>> THEN diffPanelHeight
                  ELSE LET drag == listeners[Len(listeners)]
                           newHeight == drag.startHeight - (event'.text - drag.startY)
                       IN  IF newHeight >= MinHeight THEN newHeight ELSE MinHeight]_vars
    /\ [][event'.type = "mouseup" =>
            listeners' = <<>> /\ diffPanelHeight' = diffPanelHeight]_vars

\* A mousemove of a drag that started above 256 went far enough down for the
\* clamp to act.
ResizeClampWitness ==
    /\ event.type = "mousemove"
    /\ Len(listeners) = 1
    /\ listeners[1].startHeight > InitialHeight
    /\ listeners[1].startHeight - (event.text - listeners[1].startY) < MinHeight
    /\ diffPanelHeight = MinHeight

====
